---- MODULE Spec2Model ----
(***************************************************************************)
(* Blender 3.4 "Armature Animation Rotate" script, as a state machine.     *)
(*                                                                         *)
(* One run of the script is a straight-line sequence of host calls; pc is  *)
(* the position in the script.  A run ends in "done" (the last statement   *)
(* was executed, or the error popup was shown) or in "failed" (a statement *)
(* raised, which aborts the script where it stands: the script has no      *)
(* try/finally).                                                           *)
(*                                                                         *)
(* Angles are kept in whole degrees (the script's ROTATION is in degrees   *)
(* and is converted with radians() only to be added to rotation_euler.z);  *)
(* rotation_euler.z is not wrapped, orientations derived from it are.      *)
(* Transforms are rigid motions of the XY plane: a Z rotation in quarter   *)
(* turns and an integer location.                                          *)
(***************************************************************************)
EXTENDS Integers, Sequences, FiniteSets, TLC

\* Last frame number an input action may be keyed on.
MaxFrame == 2
\* Most frames an input action may be keyed on.
MaxKeys == 3
\* Number of consecutive runs of the script that are followed.
MaxRuns == 2

VARIABLES
    pc,                   \* position in the script
    ROTATION,             \* line 24, set by the user before the run
    objs,                 \* bpy.data.objects: id -> object
    linked,               \* bpy.context.collection.objects
    selected,             \* selected objects
    active,               \* bpy.context.active_object
    mode,                 \* "OBJECT" or "POSE"
    actions,              \* bpy.data.actions: id -> keyed poses
    parent_armature_obj,  \* script variables; 0 is "not bound yet"
    bake_armature_obj,
    updated_armature_obj,
    original_action,
    animation_length,
    rotated_action,
    popup,                \* messages shown by show_error_message
    bake_call,            \* arguments of the bpy.ops.nla.bake calls made
    run,                  \* number of the current run
    before                \* what the scene was when the current run began

vars == <<pc, ROTATION, objs, linked, selected, active, mode, actions,
          parent_armature_obj, bake_armature_obj, updated_armature_obj,
          original_action, animation_length, rotated_action,
          popup, bake_call, run, before>>

sceneVars == <<objs, linked, selected, active, mode, actions>>
scriptVars == <<parent_armature_obj, bake_armature_obj, updated_armature_obj,
                original_action, animation_length, rotated_action>>
runVars == <<ROTATION, run, before>>

-----------------------------------------------------------------------------
(* Data model *)

Bones == {"root", "hip"}
BoneParent(b) == IF b = "hip" THEN "root" ELSE ""
Identity == [loc |-> <<0, 0>>, rot |-> 0]
BoneRest(b) == IF b = "hip" THEN [loc |-> <<0, 1>>, rot |-> 0] ELSE Identity

\* Values a keyed bone pose is drawn from.
PoseValues == {Identity, [loc |-> <<1, 2>>, rot |-> 90]}
Rotations == {0, 90, 180, 270}

SetMin(S) == CHOOSE x \in S : \A y \in S : x <= y
SetMax(S) == CHOOSE x \in S : \A y \in S : x >= y

\* v turned by d degrees about Z (quarter turns).
RotVec(d, v) ==
    LET q == d % 360 IN
    CASE q = 0   -> v
      [] q = 90  -> <<-v[2], v[1]>>
      [] q = 180 -> <<-v[1], -v[2]>>
      [] q = 270 -> <<v[2], -v[1]>>

Compose(A, B) ==
    LET r == RotVec(A.rot, B.loc) IN
    [loc |-> <<A.loc[1] + r[1], A.loc[2] + r[2]>>, rot |-> (A.rot + B.rot) % 360]

Inverse(A) ==
    [loc |-> RotVec(-A.rot, <<-A.loc[1], -A.loc[2]>>), rot |-> (-A.rot) % 360]

\* Object placement: only rotation_euler.z varies.
Placement(z) == [loc |-> <<0, 0>>, rot |-> z % 360]

NoAnimData == [exists |-> FALSE, action |-> 0, tracks |-> <<>>]
NoConstraints == [b \in Bones |-> {}]
EmptyAction == [f \in {} |-> [b \in Bones |-> Identity]]

\* action.frame_range
FrameRange(a) ==
    IF DOMAIN a = {} THEN <<0, 1>> ELSE <<SetMin(DOMAIN a), SetMax(DOMAIN a)>>

\* Local pose of bone b when action a is played at frame f: the key at f,
\* the first key before the keyed range, the latest key at or before f after.
Eval(a, b, f) ==
    IF DOMAIN a = {} THEN Identity
    ELSE IF f <= SetMin(DOMAIN a) THEN a[SetMin(DOMAIN a)][b]
    ELSE a[SetMax({k \in DOMAIN a : k <= f})][b]

RECURSIVE ArmatureSpace(_, _, _)
ArmatureSpace(a, b, f) ==
    LET local == Compose(BoneRest(b), Eval(a, b, f)) IN
    IF BoneParent(b) = "" THEN local
    ELSE Compose(ArmatureSpace(a, BoneParent(b), f), local)

\* World transform of bone b of an armature placed at z playing a at frame f.
WorldSpace(z, a, b, f) == Compose(Placement(z), ArmatureSpace(a, b, f))

ActionOf(o) ==
    IF o.anim.exists /\ o.anim.action # 0 THEN actions[o.anim.action] ELSE EmptyAction

NewId == IF DOMAIN objs = {} THEN 1 ELSE SetMax(DOMAIN objs) + 1

-----------------------------------------------------------------------------
(* Initial scenes *)

InputActions ==
    UNION {[(r[1]..r[2]) -> [Bones -> PoseValues]] :
             r \in {q \in (-1..MaxFrame) \X (-1..MaxFrame) : q[2] - q[1] < MaxKeys}}

AnimatedArmature(z, hasData, hasAction) ==
    [name |-> "Armature", type |-> "ARMATURE", rot_z |-> z,
     anim |-> [exists |-> hasData,
               action |-> IF hasData /\ hasAction THEN 1 ELSE 0,
               tracks |-> <<>>],
     cons |-> NoConstraints]

\* The selected object and the scene as a run finds them; first is the action
\* the first run was given.
Snapshot(o, acts, ids, lnk, first) ==
    [rot_z |-> o.rot_z, name |-> o.name, tracks |-> o.anim.tracks,
     action |-> o.anim.action, actions |-> acts, objects |-> ids, linked |-> lnk, first |-> first]

Init ==
    /\ pc = "check"
    /\ ROTATION \in Rotations
    /\ \E z \in {0, 90}, a \in InputActions, kind \in {"action", "noaction", "nodata", "mesh"} :
         /\ kind # "action" => (z = 0 /\ DOMAIN a = 1..1 /\ \A b \in Bones : a[1][b] = Identity)
         /\ kind = "mesh" => ROTATION = 180
         /\ DOMAIN a # {}
         /\ actions = <<a>>
         /\ objs = (1 :> IF kind = "mesh"
                           THEN [AnimatedArmature(z, FALSE, FALSE) EXCEPT
                                   !.type = "MESH", !.name = "Cube"]
                           ELSE AnimatedArmature(z, kind # "nodata", kind = "action"))
         /\ before = Snapshot(objs[1], actions, {1}, {1}, a)
    /\ linked = {1}
    /\ selected = {1}
    /\ active = 1
    /\ mode = "OBJECT"
    /\ parent_armature_obj = 0
    /\ bake_armature_obj = 0
    /\ updated_armature_obj = 0
    /\ original_action = 0
    /\ animation_length = 0
    /\ rotated_action = 0
    /\ popup = <<>>
    /\ bake_call = <<>>
    /\ run = 1

-----------------------------------------------------------------------------
(* The script *)

CheckArmature_NoTypeCheck ==
    /\ pc = "check"
    /\ parent_armature_obj' = active
    /\ pc' = "duplicate"
    /\ UNCHANGED <<sceneVars, bake_armature_obj, updated_armature_obj,
                   original_action, animation_length, rotated_action,
                   popup, bake_call, runVars>>

\* Lines 27-30.
CheckArmature ==
    /\ pc = "check"
    /\ parent_armature_obj' = active
    /\ pc' = IF objs[active].type # "ARMATURE" THEN "show_error" ELSE "duplicate"
    /\ UNCHANGED <<sceneVars, bake_armature_obj, updated_armature_obj,
                   original_action, animation_length, rotated_action,
                   popup, bake_call, runVars>>

\* Lines 32-38.
ShowErrorMessage ==
    /\ pc = "show_error"
    /\ popup' = Append(popup, "The selected object is not an armature.")
    /\ pc' = "done"
    /\ UNCHANGED <<sceneVars, scriptVars, bake_call, runVars>>

\* Object.copy(): a new object with the same placement, constraints and
\* animation data; the data names the same action, it is not duplicated.
CopyOf(o, name) == [o EXCEPT !.name = name]

\* Lines 42-52.
DuplicateArmatures ==
    /\ pc = "duplicate"
    /\ LET b == NewId
           u == NewId + 1
       IN /\ objs' = objs @@ (b :> CopyOf(objs[parent_armature_obj], "Bake"))
                          @@ (u :> CopyOf(objs[parent_armature_obj], "Updated"))
          /\ bake_armature_obj' = b
          /\ updated_armature_obj' = u
    /\ pc' = "link"
    /\ UNCHANGED <<linked, selected, active, mode, actions, parent_armature_obj,
                   original_action, animation_length, rotated_action,
                   popup, bake_call, runVars>>

\* Lines 55-56.
LinkObjects ==
    /\ pc = "link"
    /\ linked' = linked \cup {bake_armature_obj, updated_armature_obj}
    /\ pc' = "archive_original"
    /\ UNCHANGED <<objs, selected, active, mode, actions, scriptVars,
                   popup, bake_call, runVars>>

Strip(name, start, action) == [name |-> name, start |-> start, action |-> action]
Track(name, strips) == [name |-> name, strips |-> strips]

PushDown_Prepend(o, trackName, stripName, action) ==
    [o EXCEPT !.anim.tracks =
        <<Track(trackName,
                <<Strip(stripName, FrameRange(actions[action])[1], action)>>)>> \o @]

\* nla_tracks.new() followed by the naming of the track and of its strip.
PushDown(o, trackName, stripName, action) ==
    [o EXCEPT !.anim.tracks =
        Append(@, Track(trackName,
                        <<Strip(stripName, FrameRange(actions[action])[1], action)>>))]

\* Lines 59-63.  Line 59 raises when the armature has no animation data; line
\* 62 raises when it has no active action, after lines 60-61 made the track.
ArchiveOriginal ==
    /\ pc = "archive_original"
    /\ LET u == objs[updated_armature_obj] IN
       IF ~u.anim.exists
       THEN /\ pc' = "failed"
            /\ UNCHANGED <<objs, original_action>>
       ELSE IF u.anim.action = 0
       THEN /\ objs' = [objs EXCEPT ![updated_armature_obj].anim.tracks =
                           Append(@, Track(objs[parent_armature_obj].name \o "-original", <<>>))]
            /\ pc' = "failed"
            /\ UNCHANGED original_action
       ELSE /\ original_action' = u.anim.action
            /\ objs' = [objs EXCEPT ![updated_armature_obj] =
                           PushDown(u, objs[parent_armature_obj].name \o "-original",
                                    "original", u.anim.action)]
            /\ pc' = "length"
    /\ UNCHANGED <<linked, selected, active, mode, actions, parent_armature_obj,
                   bake_armature_obj, updated_armature_obj, animation_length,
                   rotated_action, popup, bake_call, runVars>>

\* Line 67.
StoreAnimationLength ==
    /\ pc = "length"
    /\ animation_length' = FrameRange(ActionOf(objs[parent_armature_obj]))[2]
    /\ pc' = "constraints"
    /\ UNCHANGED <<sceneVars, parent_armature_obj, bake_armature_obj,
                   updated_armature_obj, original_action, rotated_action,
                   popup, bake_call, runVars>>

Constraint(type, target, subtarget) ==
    [type |-> type, target |-> target, subtarget |-> subtarget, influence |-> 1]

BoneConstraints_RotationOnly(bone) ==
    {Constraint("COPY_ROTATION", parent_armature_obj, bone)}

\* Lines 73-87, the body of the loop for one bone.
BoneConstraints(bone) ==
    {Constraint("COPY_ROTATION", parent_armature_obj, bone),
     Constraint("COPY_LOCATION", parent_armature_obj, bone)}

\* Lines 70-87.
AddConstraints ==
    /\ pc = "constraints"
    /\ objs' = [objs EXCEPT ![bake_armature_obj].cons =
                   [b \in Bones |-> @[b] \cup BoneConstraints(b)]]
    /\ pc' = "clear_animation"
    /\ UNCHANGED <<linked, selected, active, mode, actions, scriptVars,
                   popup, bake_call, runVars>>

ClearBakeAnimationData_Skipped ==
    /\ pc = "clear_animation"
    /\ pc' = "rotate_parent"
    /\ UNCHANGED <<sceneVars, scriptVars, popup, bake_call, runVars>>

\* Line 90.
ClearBakeAnimationData ==
    /\ pc = "clear_animation"
    /\ objs' = [objs EXCEPT ![bake_armature_obj].anim = NoAnimData]
    /\ pc' = "rotate_parent"
    /\ UNCHANGED <<linked, selected, active, mode, actions, scriptVars,
                   popup, bake_call, runVars>>

\* Line 93.
RotateParent ==
    /\ pc = "rotate_parent"
    /\ objs' = [objs EXCEPT ![parent_armature_obj].rot_z = @ + ROTATION]
    /\ pc' = "pose_mode"
    /\ UNCHANGED <<linked, selected, active, mode, actions, scriptVars,
                   popup, bake_call, runVars>>

\* Lines 96-97.
EnterPoseMode ==
    /\ pc = "pose_mode"
    /\ selected' = selected \cup {bake_armature_obj}
    /\ mode' = "POSE"
    /\ pc' = "bake"
    /\ UNCHANGED <<objs, linked, active, actions, scriptVars,
                   popup, bake_call, runVars>>

\* World transform of bone b of object o at frame f once its constraints are
\* solved: a COPY_LOCATION takes the location and a COPY_ROTATION the rotation
\* of the target's bone in world space; what is not constrained is o's own.
ConstrainedWorld(o, b, f) ==
    LET own == WorldSpace(o.rot_z, ActionOf(o), b, f)
        Has(type) == \E c \in o.cons[b] : c.type = type
        Target(type) ==
            LET c == CHOOSE c \in o.cons[b] : c.type = type
            IN  WorldSpace(objs[c.target].rot_z, ActionOf(objs[c.target]), c.subtarget, f)
    IN  [loc |-> IF Has("COPY_LOCATION") THEN Target("COPY_LOCATION").loc ELSE own.loc,
         rot |-> IF Has("COPY_ROTATION") THEN Target("COPY_ROTATION").rot ELSE own.rot]

\* visual_keying: the local pose that puts bone b where the constraints hold
\* it, relative to its parent bone (or to the object for a root bone).
VisualLocal(o, b, f) ==
    LET frame == IF BoneParent(b) = ""
                 THEN Compose(Placement(o.rot_z), BoneRest(b))
                 ELSE Compose(ConstrainedWorld(o, BoneParent(b), f), BoneRest(b))
    IN  Compose(Inverse(frame), ConstrainedWorld(o, b, f))

BakeFrames_Exclusive(frame_start, frame_end) == frame_start..(frame_end - 1)

\* Frames sampled by a bake from frame_start to frame_end.
BakeFrames(frame_start, frame_end) == frame_start..frame_end

BakedKeys(o, frames) == [f \in frames |-> [b \in Bones |-> VisualLocal(o, b, f)]]

\* use_current_action: the keys go into the object's action when it has one,
\* into a new action otherwise.
WriteKeys(old, keys) ==
    [f \in DOMAIN old \cup DOMAIN keys |-> IF f \in DOMAIN keys THEN keys[f] ELSE old[f]]

BakeArguments ==
    [frame_start |-> 1, frame_end |-> animation_length, visual_keying |-> TRUE,
     clear_constraints |-> TRUE, use_current_action |-> TRUE, bake_types |-> {"POSE"}]

\* Lines 100-107.  The operator either bakes or raises.
Bake ==
    /\ pc = "bake"
    /\ bake_call' = Append(bake_call, BakeArguments)
    /\ \E ok \in BOOLEAN :
         IF ok
         THEN LET o == objs[bake_armature_obj]
                  keys == BakedKeys(o, BakeFrames(BakeArguments.frame_start,
                                                  BakeArguments.frame_end))
              IN  /\ IF o.anim.exists /\ o.anim.action # 0
                     THEN /\ actions' = [actions EXCEPT ![o.anim.action] = WriteKeys(@, keys)]
                          /\ objs' = [objs EXCEPT ![bake_armature_obj].cons = NoConstraints]
                     ELSE /\ actions' = Append(actions, keys)
                          /\ objs' = [objs EXCEPT
                                        ![bake_armature_obj].cons = NoConstraints,
                                        ![bake_armature_obj].anim =
                                            [exists |-> TRUE, action |-> Len(actions) + 1,
                                             tracks |-> o.anim.tracks]]
                  /\ pc' = "archive_rotated"
         ELSE /\ pc' = "failed"
              /\ UNCHANGED <<objs, actions>>
    /\ UNCHANGED <<linked, selected, active, mode, scriptVars, popup, runVars>>

\* Lines 109-116.
ArchiveRotated ==
    /\ pc = "archive_rotated"
    /\ LET o == objs[bake_armature_obj] IN
       IF ~o.anim.exists \/ o.anim.action = 0
       THEN /\ pc' = "failed"
            /\ UNCHANGED <<objs, rotated_action>>
       ELSE /\ rotated_action' = o.anim.action
            /\ objs' = [objs EXCEPT ![updated_armature_obj] =
                          [PushDown(@, objs[parent_armature_obj].name \o "-" \o ToString(ROTATION),
                                    ToString(ROTATION), o.anim.action)
                             EXCEPT !.anim.action = 0]]
            /\ pc' = "restore_parent"
    /\ UNCHANGED <<linked, selected, active, mode, actions, parent_armature_obj,
                   bake_armature_obj, updated_armature_obj, original_action,
                   animation_length, popup, bake_call, runVars>>

\* Lines 119-120.
RestoreParent ==
    /\ pc = "restore_parent"
    /\ mode' = "OBJECT"
    /\ objs' = [objs EXCEPT ![parent_armature_obj].rot_z = @ + (-ROTATION)]
    /\ pc' = "delete_bake"
    /\ UNCHANGED <<linked, selected, active, actions, scriptVars,
                   popup, bake_call, runVars>>

\* Lines 123-125: deselect all, select Bake, delete what is selected.
DeleteBake ==
    /\ pc = "delete_bake"
    /\ LET sel == {bake_armature_obj} IN
         /\ objs' = [i \in DOMAIN objs \ sel |-> objs[i]]
         /\ linked' = linked \ sel
    /\ selected' = {}
    /\ pc' = "rename"
    /\ UNCHANGED <<active, mode, actions, scriptVars, popup, bake_call, runVars>>

\* Line 128.
RenameUpdated ==
    /\ pc = "rename"
    /\ objs' = [objs EXCEPT ![updated_armature_obj].name =
                   objs[parent_armature_obj].name \o "-updated"]
    /\ pc' = "done"
    /\ UNCHANGED <<linked, selected, active, mode, actions, scriptVars,
                   popup, bake_call, runVars>>

Succeeded == pc = "done" /\ popup = <<>>

\* The user makes the rotated action the active action of the armature the
\* run produced, selects that armature, sets ROTATION to the opposite angle
\* and runs the script again.
RunAgain ==
    /\ Succeeded
    /\ run < MaxRuns
    /\ LET o == [objs[updated_armature_obj] EXCEPT !.anim.action = rotated_action] IN
         /\ objs' = [objs EXCEPT ![updated_armature_obj] = o]
         /\ before' = Snapshot(o, actions, DOMAIN objs, linked, before.first)
    /\ active' = updated_armature_obj
    /\ selected' = {updated_armature_obj}
    /\ ROTATION' = -ROTATION
    /\ run' = run + 1
    /\ parent_armature_obj' = 0
    /\ bake_armature_obj' = 0
    /\ updated_armature_obj' = 0
    /\ original_action' = 0
    /\ animation_length' = 0
    /\ rotated_action' = 0
    /\ pc' = "check"
    /\ UNCHANGED <<linked, mode, actions, popup, bake_call>>

Next ==
    \/ CheckArmature
    \/ ShowErrorMessage
    \/ DuplicateArmatures
    \/ LinkObjects
    \/ ArchiveOriginal
    \/ StoreAnimationLength
    \/ AddConstraints
    \/ ClearBakeAnimationData
    \/ RotateParent
    \/ EnterPoseMode
    \/ Bake
    \/ ArchiveRotated
    \/ RestoreParent
    \/ DeleteBake
    \/ RenameUpdated
    \/ RunAgain

Spec == Init /\ [][Next]_vars

-----------------------------------------------------------------------------
(* Properties *)

Ended == pc \in {"done", "failed"}
\* The action the selected armature had when the run began.
Original == before.actions[before.action]
Rotated == actions[rotated_action]
UpdatedTracks == objs[updated_armature_obj].anim.tracks

C2_PlayedAtRotation ==
    rotated_action # 0 =>
        \A f \in 1..animation_length, b \in Bones :
            WorldSpace(ROTATION, Rotated, b, f) = WorldSpace(0, Original, b, f)

\* C2 amended: the baked action played on an armature placed at -ROTATION puts
\* every bone, at every frame 1..f1, where the original action puts it on an
\* armature placed at 0 (the baked motion is the original turned by +ROTATION).
C2_PlayedAtOppositeRotation ==
    rotated_action # 0 =>
        \A f \in 1..animation_length, b \in Bones :
            WorldSpace(-ROTATION, Rotated, b, f) = WorldSpace(0, Original, b, f)

\* A quarter turn was baked over two frames of an action that moves the root.
C2_Witness ==
    /\ rotated_action # 0
    /\ ROTATION = 90
    /\ animation_length = 2
    /\ DOMAIN Original = 0..2
    /\ Original[1]["root"] # Original[2]["root"]
    /\ DOMAIN Rotated = 1..2

C4_NotASkeleton ==
    objs[active].type # "ARMATURE" =>
        /\ pc \in {"check", "show_error", "done"}
        /\ DOMAIN objs = before.objects
        /\ linked = before.linked
        /\ actions = before.actions
        /\ \A i \in DOMAIN objs : objs[i].cons = NoConstraints
        /\ objs[active].anim.tracks = before.tracks
        /\ bake_call = <<>>
        /\ bake_armature_obj = 0 /\ updated_armature_obj = 0
        /\ objs[active].rot_z = before.rot_z
        /\ objs[active].name = before.name
        /\ pc = "done" => popup = <<"The selected object is not an armature.">>

\* The run on a mesh has ended with the message shown.
C4_Witness == objs[active].type = "MESH" /\ pc = "done" /\ Len(popup) = 1

C6_ScratchDestroyed ==
    (Ended /\ bake_armature_obj # 0) =>
        (bake_armature_obj \notin DOMAIN objs /\ bake_armature_obj \notin linked)

\* C7: a run that failed left no track it added on the result object.
C7_AllOrNothing ==
    (pc = "failed" /\ updated_armature_obj # 0) =>
        Len(UpdatedTracks) = Len(before.tracks)

\* C8: when the original's upper frame bound is below 1 no bake is called
\* with frame_end < frame_start, and no rotated action or track is made.
C8_EmptyRange ==
    /\ \A i \in DOMAIN bake_call : bake_call[i].frame_end >= bake_call[i].frame_start
    /\ (before.action # 0 /\ FrameRange(Original)[2] < 1) => rotated_action = 0

\* C9: the second run, at the opposite angle on the first run's result, gives
\* an action that puts every bone where the first run's original puts it, at
\* every frame of that original's range.
C9_RoundTrip ==
    (run = 2 /\ rotated_action # 0) =>
        \A f \in DOMAIN before.first, b \in Bones :
            WorldSpace(0, Rotated, b, f) = WorldSpace(0, before.first, b, f)

\* C10: the selected armature's Z rotation is its initial value plus ROTATION
\* from the bake until the rotated track is archived, and is its initial
\* value again when the run has ended, well or not.
C10_RotationRestored ==
    parent_armature_obj # 0 =>
        /\ pc \in {"pose_mode", "bake", "archive_rotated", "restore_parent"} =>
               objs[parent_armature_obj].rot_z = before.rot_z + ROTATION
        /\ Ended => objs[parent_armature_obj].rot_z = before.rot_z
====
